---- MODULE Spec2Model ----
(***************************************************************************)
(* Model of csv_to_healthdcat.converter.CSVToHealthDCAT: the conversion of *)
(* CSV dataset metadata into a HealthDCAT triple store.                    *)
(*                                                                         *)
(* Text is a sequence of one-character strings, so that upper(), lower(),  *)
(* replace(), split() and strip() are computed character by character.     *)
(* Fixed vocabulary terms and the base URI are single atoms inside such a  *)
(* sequence.  The triple store (rdflib Graph) is a set of triples.         *)
(***************************************************************************)
EXTENDS Naturals, Sequences, FiniteSets

VARIABLES
    graph,        \* self.graph: the set of triples <<subject, predicate, object>>
    src,          \* the argument of the latest convert_csv call (the file at csv_path)
    outcome,      \* how the latest call ended: "ok" or the exception raised
    mapped,       \* history: one entry per _add_dataset_to_graph call, in call order
    calls,        \* number of convert_csv calls made on this converter
    before,       \* the store as it was when the latest call began
    theme_in,     \* argument of a direct _get_theme_uri call
    theme_out,    \* result of _get_theme_uri(theme_in)
    theme_row     \* theme object the mapper emits for a theme cell holding theme_in

vars == <<graph, before, src, outcome, mapped, calls, theme_in, theme_out, theme_row>>

(***************************************************************************)
(* Bounds of the model.                                                    *)
(***************************************************************************)
MaxRows == 2       \* records per CSV file
MaxCalls == 2      \* convert_csv calls on one converter
MaxFreeLen == 2    \* length of the free-text theme labels tried besides the table's words

(***************************************************************************)
(* Text: Python str operations.                                            *)
(***************************************************************************)
LowerLetters ==
    <<"a","b","c","d","e","f","g","h","i","j","k","l","m",
      "n","o","p","q","r","s","t","u","v","w","x","y","z">>

UpperLetters ==
    <<"A","B","C","D","E","F","G","H","I","J","K","L","M",
      "N","O","P","Q","R","S","T","U","V","W","X","Y","Z">>

LetterCount == Len(LowerLetters)

UpperChar(c) ==
    IF \E i \in 1..LetterCount : LowerLetters[i] = c
    THEN UpperLetters[CHOOSE i \in 1..LetterCount : LowerLetters[i] = c]
    ELSE c

LowerChar(c) ==
    IF \E i \in 1..LetterCount : UpperLetters[i] = c
    THEN LowerLetters[CHOOSE i \in 1..LetterCount : UpperLetters[i] = c]
    ELSE c

\* str.upper()
Upper(t) == [i \in 1..Len(t) |-> UpperChar(t[i])]

\* str.lower()
Lower(t) == [i \in 1..Len(t) |-> LowerChar(t[i])]

\* str.replace(old, new) for a one-character old
Replace(t, old, new) == [i \in 1..Len(t) |-> IF t[i] = old THEN new ELSE t[i]]

Whitespace == {" ", "\t"}

RECURSIVE LStrip(_)
LStrip(t) ==
    IF t # <<>> /\ t[1] \in Whitespace THEN LStrip(Tail(t)) ELSE t

RECURSIVE RStrip(_)
RStrip(t) ==
    IF t # <<>> /\ t[Len(t)] \in Whitespace
    THEN RStrip(SubSeq(t, 1, Len(t) - 1))
    ELSE t

\* str.strip()
Strip(t) == RStrip(LStrip(t))

\* str.split(sep): the sequence of pieces; "" splits into one empty piece
RECURSIVE SplitFrom(_, _, _)
SplitFrom(t, sep, piece) ==
    IF t = <<>> THEN <<piece>>
    ELSE IF t[1] = sep THEN <<piece>> \o SplitFrom(Tail(t), sep, <<>>)
    ELSE SplitFrom(Tail(t), sep, Append(piece, t[1]))

Split(t, sep) == SplitFrom(t, sep, <<>>)

\* str(n) for a natural number
DigitChars == <<"0","1","2","3","4","5","6","7","8","9">>

RECURSIVE IntStr(_)
IntStr(n) ==
    IF n < 10 THEN <<DigitChars[n + 1]>>
    ELSE IntStr(n \div 10) \o <<DigitChars[(n % 10) + 1]>>

(***************************************************************************)
(* RDF terms.  A URIRef and a Literal with the same text are different     *)
(* terms, so every term carries its kind.                                  *)
(***************************************************************************)
URIRef(t) == [k |-> "uri", v |-> t]

Literal(t) == [k |-> "lit", v |-> t]

RDF_type == URIRef(<<"http://www.w3.org/1999/02/22-rdf-syntax-ns#type">>)

DCAT_Dataset == URIRef(<<"http://www.w3.org/ns/dcat#Dataset">>)

DCAT_theme == URIRef(<<"http://www.w3.org/ns/dcat#theme">>)

DCAT_keyword == URIRef(<<"http://www.w3.org/ns/dcat#keyword">>)

DCAT_landingPage == URIRef(<<"http://www.w3.org/ns/dcat#landingPage">>)

DCTERMS_title == URIRef(<<"http://purl.org/dc/terms/title">>)

DCTERMS_description == URIRef(<<"http://purl.org/dc/terms/description">>)

DCTERMS_publisher == URIRef(<<"http://purl.org/dc/terms/publisher">>)

DCTERMS_issued == URIRef(<<"http://purl.org/dc/terms/issued">>)

DCTERMS_modified == URIRef(<<"http://purl.org/dc/terms/modified">>)

DCTERMS_license == URIRef(<<"http://purl.org/dc/terms/license">>)

FOAF_Organization == URIRef(<<"http://xmlns.com/foaf/0.1/Organization">>)

FOAF_name == URIRef(<<"http://xmlns.com/foaf/0.1/name">>)

\* self.base_uri, the constructor's default
base_uri == <<"http://example.org/">>

\* urljoin(base, rel) for a base ending in "/" and a relative path without
\* scheme, leading "/" or dot segments: the path is appended to the base
urljoin(base, rel) == base \o rel

(***************************************************************************)
(* The CSV file and pandas.                                                *)
(***************************************************************************)
Columns ==
    {"title", "description", "id", "publisher", "issued", "modified",
     "license", "theme", "keyword", "landing_page"}

\* a missing value (float nan) in a parsed table
NaN == <<"<float nan>">>

\* str(value) of a parsed cell
Str(v) == IF v = NaN THEN <<"n","a","n">> ELSE v

\* pandas' default na_values that the model's cells can hold
NaValues == { <<>>, <<"N","A">>, <<"n","a","n">> }

\* the parsed value of one raw cell (object columns: the text is kept as is)
read_cell(raw) == IF raw \in NaValues THEN NaN ELSE raw

\* pd.read_csv skips blank lines: a line is blank only if the table has a
\* single column and that cell is empty
blank_line(header, line) ==
    Cardinality(header) = 1 /\ \A c \in header : line[c] = <<>>

RECURSIVE read_lines(_, _)
read_lines(header, lines) ==
    IF lines = <<>> THEN <<>>
    ELSE IF blank_line(header, Head(lines)) THEN read_lines(header, Tail(lines))
    ELSE <<[c \in header |-> read_cell(Head(lines)[c])]>>
             \o read_lines(header, Tail(lines))

\* df = pd.read_csv(csv_file), with the default RangeIndex: rows[i] has index i-1
read_csv(s) == [columns |-> s.header, rows |-> read_lines(s.header, s.lines)]

\* df.empty: some axis has length 0
df_empty(df) == df.columns = {} \/ df.rows = <<>>

\* row.get(key, default)
Get(row, key, default) == IF key \in DOMAIN row THEN row[key] ELSE default

\* "key" in row and pd.notna(row[key])
present(row, key) == key \in DOMAIN row /\ row[key] # NaN

(***************************************************************************)
(* _get_theme_uri: exact lookup in theme_mapping, default HEAL.            *)
(***************************************************************************)
HEAL == <<"H","E","A","L">>

theme_mapping(theme) ==
    CASE theme = <<"H","E","A","L","T","H">> -> HEAL
      [] theme = <<"H","E","A","L">> -> HEAL
      [] theme = <<"M","E","D","I","C","I","N","E">> -> HEAL
      [] theme = <<"S","C","I","E","N","C","E">> -> <<"S","C","I","E">>
      [] theme = <<"E","D","U","C","A","T","I","O","N">> -> <<"E","D","U","C">>
      [] theme = <<"E","N","V","I","R","O","N","M","E","N","T">> -> <<"E","N","V","I">>
      [] theme = <<"T","E","C","H","N","O","L","O","G","Y">> -> <<"T","E","C","H">>
      [] OTHER -> HEAL

authority_base == <<"http://publications.europa.eu/resource/authority/data-theme/">>

_get_theme_uri(theme) == URIRef(authority_base \o theme_mapping(theme))

(***************************************************************************)
(* _add_dataset_to_graph: the triples of one record.                       *)
(***************************************************************************)
\* row.get("id", f"dataset-{row_index + 1}")
dataset_id(row, row_index) ==
    Get(row, "id", <<"dataset-">> \o IntStr(row_index + 1))

\* URIRef(urljoin(self.base_uri, f"dataset/{dataset_id}"))
dataset_uri(row, row_index) ==
    URIRef(urljoin(base_uri, <<"dataset/">> \o Str(dataset_id(row, row_index))))

\* title = str(row.get("title", "Unknown"))
title_of(row) == Str(Get(row, "title", <<"U","n","k","n","o","w","n">>))

\* variant: the title handled like an optional field, left out when the cell is blank
title_triples_if_present(ds, row) ==
    IF present(row, "title") THEN {<<ds, DCTERMS_title, Literal(title_of(row))>>} ELSE {}

title_triples(ds, row) == {<<ds, DCTERMS_title, Literal(title_of(row))>>}

\* description = str(row.get("description", ""))
description_of(row) == Str(Get(row, "description", <<>>))

description_triples(ds, row) ==
    IF description_of(row) # <<>>
    THEN {<<ds, DCTERMS_description, Literal(description_of(row))>>}
    ELSE {}

\* variant: the slug keeps the case of the name
publisher_slug_keeps_case(publisher_name) == Replace(publisher_name, " ", "-")

\* publisher_name.replace(' ', '-').lower()
publisher_slug(publisher_name) == Lower(Replace(publisher_name, " ", "-"))

publisher_uri(publisher_name) ==
    URIRef(urljoin(base_uri, <<"organization/">> \o publisher_slug(publisher_name)))

publisher_triples(ds, row) ==
    IF present(row, "publisher")
    THEN LET publisher_name == Str(row["publisher"]) IN
         { <<ds, DCTERMS_publisher, publisher_uri(publisher_name)>>,
           <<publisher_uri(publisher_name), RDF_type, FOAF_Organization>>,
           <<publisher_uri(publisher_name), FOAF_name, Literal(publisher_name)>> }
    ELSE {}

\* issued, modified: the text as a literal
literal_triples(ds, row, key, predicate) ==
    IF present(row, key) THEN {<<ds, predicate, Literal(Str(row[key]))>>} ELSE {}

\* license, landing_page: the text as a URI reference
uri_triples(ds, row, key, predicate) ==
    IF present(row, key) THEN {<<ds, predicate, URIRef(Str(row[key]))>>} ELSE {}

\* variant: the theme text is looked up without upper()
theme_object_as_written(cell) == _get_theme_uri(Str(cell))

\* theme_value = str(row["theme"]).upper(); theme_uri = self._get_theme_uri(theme_value)
theme_object(cell) == _get_theme_uri(Upper(Str(cell)))

theme_triples(ds, row) ==
    IF present(row, "theme") THEN {<<ds, DCAT_theme, theme_object(row["theme"])>>} ELSE {}

\* variant: the pieces are added without strip()
keyword_literals_unstripped(cell) ==
    LET keywords == Split(Str(cell), ";") IN
    { Literal(keywords[i]) : i \in 1..Len(keywords) }

\* keywords = str(row["keyword"]).split(";"), each added stripped
keyword_literals(cell) ==
    LET keywords == Split(Str(cell), ";") IN
    { Literal(Strip(keywords[i])) : i \in 1..Len(keywords) }

keyword_triples(ds, row) ==
    IF present(row, "keyword")
    THEN { <<ds, DCAT_keyword, o>> : o \in keyword_literals(row["keyword"]) }
    ELSE {}

\* the triples the calls of self.graph.add put into the store for one row
row_triples(row, row_index) ==
    LET ds == dataset_uri(row, row_index) IN
    { <<ds, RDF_type, DCAT_Dataset>> }
      \cup title_triples(ds, row)
      \cup description_triples(ds, row)
      \cup publisher_triples(ds, row)
      \cup literal_triples(ds, row, "issued", DCTERMS_issued)
      \cup literal_triples(ds, row, "modified", DCTERMS_modified)
      \cup uri_triples(ds, row, "license", DCTERMS_license)
      \cup theme_triples(ds, row)
      \cup keyword_triples(ds, row)
      \cup uri_triples(ds, row, "landing_page", DCAT_landingPage)

\* Graph.add on a set-based store
_add_dataset_to_graph(g, row, row_index) == g \cup row_triples(row, row_index)

(***************************************************************************)
(* convert_csv.                                                            *)
(***************************************************************************)
required_columns == {"title", "description"}

missing_columns(df) == required_columns \ df.columns

\* for idx, row in df.iterrows(): self._add_dataset_to_graph(row, idx)
RECURSIVE iterrows(_, _, _)
iterrows(g, rows, idx) ==
    IF rows = <<>> THEN g
    ELSE iterrows(_add_dataset_to_graph(g, Head(rows), idx), Tail(rows), idx + 1)

\* what the loop logs: the dataset URI and the row of every mapper call, in order
added_by(rows) ==
    [i \in 1..Len(rows) |->
        [uri |-> dataset_uri(rows[i], i - 1), row |-> rows[i], pos |-> i - 1]]

Returned(g, added) == [graph |-> g, exc |-> "none", missing |-> {}, added |-> added]

Raised(g, exc, missing) == [graph |-> g, exc |-> exc, missing |-> missing, added |-> <<>>]

\* variant: the required columns are checked before df.empty
convert_csv_columns_first(g, s) ==
    IF s.kind = "nonexistent" THEN Raised(g, "FileNotFoundError", {})
    ELSE IF s.kind = "unreadable" THEN Raised(g, "ValueError", {})
    ELSE LET df == read_csv(s) IN
         IF missing_columns(df) # {}
         THEN Raised(g, "ValueError", missing_columns(df))
         ELSE IF df_empty(df) THEN Returned(g, <<>>)
              ELSE Returned(iterrows(g, df.rows, 0), added_by(df.rows))

\* variant: the required columns are checked after the rows were mapped
convert_csv_validates_late(g, s) ==
    IF s.kind = "nonexistent" THEN Raised(g, "FileNotFoundError", {})
    ELSE IF s.kind = "unreadable" THEN Raised(g, "ValueError", {})
    ELSE LET df == read_csv(s) IN
         IF df_empty(df) THEN Returned(g, <<>>)
         ELSE IF missing_columns(df) # {}
              THEN Raised(iterrows(g, df.rows, 0), "ValueError", missing_columns(df))
              ELSE Returned(iterrows(g, df.rows, 0), added_by(df.rows))

\* the whole call: the store afterwards, the exception raised if any, the records mapped
convert_csv(g, s) ==
    IF s.kind = "nonexistent" THEN Raised(g, "FileNotFoundError", {})
    ELSE IF s.kind = "unreadable" THEN Raised(g, "ValueError", {})
    ELSE LET df == read_csv(s) IN
         IF df_empty(df) THEN Returned(g, <<>>)
         ELSE IF missing_columns(df) # {}
              THEN Raised(g, "ValueError", missing_columns(df))
              ELSE Returned(iterrows(g, df.rows, 0), added_by(df.rows))

(***************************************************************************)
(* The inputs: CSV files built from three raw records, cut to a header.    *)
(***************************************************************************)
Populated ==
    [title |-> <<"T">>, description |-> <<"D">>, id |-> <<"a">>,
     publisher |-> <<"H"," ","A">>, issued |-> <<"i">>, modified |-> <<"m">>,
     license |-> <<"l">>, theme |-> <<"s","c","i","e","n","c","e">>,
     keyword |-> <<"k",";"," ","m",";">>, landing_page |-> <<"p">>]

Blank ==
    [title |-> <<>>, description |-> <<>>, id |-> <<>>,
     publisher |-> <<>>, issued |-> <<>>, modified |-> <<"N","A">>,
     license |-> <<>>, theme |-> <<>>,
     keyword |-> <<>>, landing_page |-> <<>>]

Variant ==
    [title |-> <<"U">>, description |-> <<"E">>, id |-> <<"a">>,
     publisher |-> <<"h","-","a">>, issued |-> <<"j">>, modified |-> <<"m">>,
     license |-> <<"l">>, theme |-> <<"x">>,
     keyword |-> <<"k"," ",";","k">>, landing_page |-> <<"q">>]

RowPool == {Populated, Blank, Variant}

Core == {"title", "description", "id"}

\* a file with no column at all does not parse (EmptyDataError): it is Unreadable
Headers ==
    ((SUBSET Core) \ {{}})
      \cup { required_columns \cup {c} : c \in Columns \ Core }
      \cup { Columns, {"publisher", "issued"} }

Cut(r, header) == [c \in header |-> r[c]]

LinesOf(header) ==
    UNION { [1..n -> { Cut(r, header) : r \in RowPool }] : n \in 0..MaxRows }

NoFile == [kind |-> "none", header |-> {}, lines |-> <<>>]

Nonexistent == [kind |-> "nonexistent", header |-> {}, lines |-> <<>>]

Unreadable == [kind |-> "unreadable", header |-> {}, lines |-> <<>>]

CsvFiles ==
    UNION { { [kind |-> "csv", header |-> h, lines |-> l] : l \in LinesOf(h) } : h \in Headers }

Sources == {Nonexistent, Unreadable} \cup CsvFiles

(***************************************************************************)
(* The converter: construction and convert_csv calls.                      *)
(***************************************************************************)
NoTerm == [k |-> "none", v |-> <<>>]

Init ==
    /\ graph = {}
    /\ before = {}
    /\ src = NoFile
    /\ outcome = [exc |-> "none", missing |-> {}]
    /\ mapped = <<>>
    /\ calls = 0
    /\ theme_in = <<>>
    /\ theme_out = NoTerm
    /\ theme_row = NoTerm

Call(s) ==
    /\ LET r == convert_csv(graph, s) IN
         /\ graph' = r.graph
         /\ outcome' = [exc |-> r.exc, missing |-> r.missing]
         /\ mapped' = mapped \o [i \in 1..Len(r.added) |->
                                    [uri |-> r.added[i].uri, row |-> r.added[i].row,
                                     pos |-> r.added[i].pos, call |-> calls + 1]]
    /\ before' = graph
    /\ src' = s
    /\ calls' = calls + 1
    /\ UNCHANGED <<theme_in, theme_out, theme_row>>

ConvertNonexistent ==
    /\ calls < MaxCalls
    /\ \E s \in Sources : s.kind = "nonexistent" /\ Call(s)

ConvertUnreadable ==
    /\ calls < MaxCalls
    /\ \E s \in Sources : s.kind = "unreadable" /\ Call(s)

ConvertEmptyTable ==
    /\ calls < MaxCalls
    /\ \E s \in CsvFiles : df_empty(read_csv(s)) /\ Call(s)

ConvertMissingColumns ==
    /\ calls < MaxCalls
    /\ \E s \in CsvFiles :
        /\ ~df_empty(read_csv(s))
        /\ missing_columns(read_csv(s)) # {}
        /\ Call(s)

ConvertRecords ==
    /\ calls < MaxCalls
    /\ \E s \in CsvFiles :
        /\ ~df_empty(read_csv(s))
        /\ missing_columns(read_csv(s)) = {}
        /\ Call(s)

Next ==
    \/ ConvertNonexistent
    \/ ConvertUnreadable
    \/ ConvertEmptyTable
    \/ ConvertMissingColumns
    \/ ConvertRecords

Spec == Init /\ [][Next]_vars

(***************************************************************************)
(* The theme classifier on its own: _get_theme_uri called directly, and    *)
(* the classification the mapper applies to a theme cell.                  *)
(***************************************************************************)
ThemeWords ==
    { <<"H","E","A","L","T","H">>, <<"H","E","A","L">>,
      <<"M","E","D","I","C","I","N","E">>, <<"S","C","I","E","N","C","E">>,
      <<"E","D","U","C","A","T","I","O","N">>,
      <<"E","N","V","I","R","O","N","M","E","N","T">>,
      <<"T","E","C","H","N","O","L","O","G","Y">>,
      <<"U","N","K","N","O","W","N">> }

\* every spelling of w in upper and lower case
RECURSIVE CaseVariants(_)
CaseVariants(w) ==
    IF w = <<>> THEN {<<>>}
    ELSE { <<c>> \o rest : c \in {Head(w), LowerChar(Head(w))},
                           rest \in CaseVariants(Tail(w)) }

FreeAlphabet == {"h", "E", " ", "-"}

FreeTexts == UNION { [1..n -> FreeAlphabet] : n \in 0..MaxFreeLen }

ThemeInputs ==
    UNION { CaseVariants(w) : w \in ThemeWords } \cup FreeTexts \cup NaValues

InitTheme ==
    /\ graph = {}
    /\ before = {}
    /\ src = NoFile
    /\ outcome = [exc |-> "none", missing |-> {}]
    /\ mapped = <<>>
    /\ calls = 0
    /\ theme_in \in ThemeInputs
    /\ theme_out = NoTerm
    /\ theme_row = NoTerm

\* CSVToHealthDCAT._get_theme_uri(theme_in)
GetThemeUri ==
    /\ theme_out = NoTerm
    /\ theme_out' = _get_theme_uri(theme_in)
    /\ UNCHANGED <<graph, before, src, outcome, mapped, calls, theme_in, theme_row>>

\* the theme block of _add_dataset_to_graph on a row whose theme cell reads theme_in
MapThemeCell ==
    /\ theme_row = NoTerm
    /\ LET row == [c \in {"theme"} |-> read_cell(theme_in)] IN
         /\ present(row, "theme")
         /\ theme_row' = theme_object(row["theme"])
    /\ UNCHANGED <<graph, before, src, outcome, mapped, calls, theme_in, theme_out>>

NextTheme ==
    \/ GetThemeUri
    \/ MapThemeCell

SpecTheme == InitTheme /\ [][NextTheme]_vars

(***************************************************************************)
(* Vocabulary of the properties.                                           *)
(***************************************************************************)
\* every record mapped so far, and those of the latest call
Entries == { mapped[i] : i \in DOMAIN mapped }

Latest == { m \in Entries : m.call = calls }

\* the number of records mapped to a dataset URI so far
RecordsOf(uri) == Cardinality({ i \in DOMAIN mapped : mapped[i].uri = uri })

\* the objects of the triples of g with this subject and predicate
Objects(g, subject, predicate) ==
    { t[3] : t \in { u \in g : u[1] = subject /\ u[2] = predicate } }

\* the cell of a record is missing: no such column, or a blank (NaN) cell
Missing(row, key) == key \notin DOMAIN row \/ row[key] = NaN

Failed == outcome.exc \in {"FileNotFoundError", "ValueError"}

Unknown == <<"U","n","k","n","o","w","n">>

SingleValued ==
    { DCTERMS_description, DCTERMS_publisher, DCTERMS_issued, DCTERMS_modified,
      DCTERMS_license, DCAT_theme, DCAT_landingPage }

(***************************************************************************)
(* C1: a table whose columns do not include both title and description     *)
(* makes convert_csv raise ValueError naming the missing columns, whatever *)
(* the number of records, a header-only table included.                    *)
(***************************************************************************)
C1_MissingColumnsRaise ==
    (calls > 0 /\ src.kind = "csv" /\ ~(required_columns \subseteq src.header))
        => outcome = [exc |-> "ValueError", missing |-> required_columns \ src.header]

(***************************************************************************)
(* C2: every converted record has a title triple on its dataset, and the   *)
(* title literal of a record with a blank or missing title is "Unknown".   *)
(***************************************************************************)
C2_BlankTitleIsUnknown ==
    \A m \in Entries :
        <<m.uri, DCTERMS_title,
          Literal(IF Missing(m.row, "title") THEN Unknown ELSE m.row["title"])>> \in graph

(***************************************************************************)
(* C3: a record whose description is missing or empty adds no description  *)
(* triple; any other record adds the one holding its description text.     *)
(***************************************************************************)
C3_DescriptionOnlyIfPresent ==
    \A m \in Latest :
        /\ ~Missing(m.row, "description") /\ m.row["description"] # <<>>
              => <<m.uri, DCTERMS_description, Literal(m.row["description"])>> \in graph
        /\ Objects(graph, m.uri, DCTERMS_description)
              \ Objects(before, m.uri, DCTERMS_description)
             \subseteq { Literal(n.row["description"]) :
                           n \in { l \in Latest : /\ l.uri = m.uri
                                                  /\ ~Missing(l.row, "description")
                                                  /\ l.row["description"] # <<>> } }

(***************************************************************************)
(* C4 as claimed: in every reachable store every dataset URI has exactly   *)
(* one type=Dataset triple, exactly one title triple and at most one each  *)
(* of description, publisher, issued, modified, license, theme and         *)
(* landing-page triples.                                                   *)
(***************************************************************************)
C4_OneOfEach ==
    \A m \in Entries :
        /\ <<m.uri, RDF_type, DCAT_Dataset>> \in graph
        /\ Cardinality(Objects(graph, m.uri, DCTERMS_title)) = 1
        /\ \A p \in SingleValued : Cardinality(Objects(graph, m.uri, p)) <= 1

(***************************************************************************)
(* C4 as amended: every dataset URI has its type=Dataset triple, at least  *)
(* one title triple, and no more title, description, publisher, issued,    *)
(* modified, license, theme or landing-page triples than records have been *)
(* mapped to it; every subject typed Dataset is the URI of a mapped record.*)
(***************************************************************************)
C4_OnePerMappedRecord ==
    /\ \A m \in Entries :
        /\ <<m.uri, RDF_type, DCAT_Dataset>> \in graph
        /\ Cardinality(Objects(graph, m.uri, DCTERMS_title)) >= 1
        /\ \A p \in SingleValued \cup {DCTERMS_title} :
              Cardinality(Objects(graph, m.uri, p)) <= RecordsOf(m.uri)
    /\ \A t \in graph :
        (t[2] = RDF_type /\ t[3] = DCAT_Dataset) => \E m \in Entries : m.uri = t[1]

\* two records with different titles and descriptions were mapped to one dataset URI
C4_Witness ==
    \E m \in Entries :
        /\ RecordsOf(m.uri) = 2
        /\ Cardinality(Objects(graph, m.uri, DCTERMS_title)) = 2
        /\ Cardinality(Objects(graph, m.uri, DCTERMS_description)) = 2

C6_DatasetUris ==
    /\ \A m \in Entries :
        /\ m.uri = URIRef(base_uri \o <<"dataset/">> \o
                            (IF Missing(m.row, "id")
                             THEN <<"dataset-">> \o IntStr(m.pos + 1)
                             ELSE m.row["id"]))
        /\ <<m.uri, RDF_type, DCAT_Dataset>> \in graph
    /\ (calls > 0 /\ Latest # {}) =>
          LET rows == read_csv(src).rows
              first == Len(mapped) - Len(rows)
          IN  \A i \in 1..Len(rows) :
                 /\ mapped[first + i].row = rows[i]
                 /\ mapped[first + i].pos = i - 1
                 /\ mapped[first + i].call = calls

(***************************************************************************)
(* C8 as claimed: a present keyword field of n pieces (split on ";")       *)
(* yields exactly n keyword triples on the record's dataset.               *)
(***************************************************************************)
C8_OneTriplePerPiece ==
    \A m \in Entries :
        (~Missing(m.row, "keyword") /\ RecordsOf(m.uri) = 1)
            => Cardinality(Objects(graph, m.uri, DCAT_keyword))
                   = Len(Split(m.row["keyword"], ";"))

(***************************************************************************)
(* C8 as amended: every piece of a present keyword field, stripped, is a   *)
(* keyword literal of the record's dataset (empty pieces included); a      *)
(* dataset that one record was mapped to has exactly the distinct stripped *)
(* pieces as keywords, and none when the keyword is missing.               *)
(***************************************************************************)
C8_DistinctStrippedPieces ==
    \A m \in Entries :
        LET pieces == IF Missing(m.row, "keyword") THEN <<>>
                      ELSE Split(m.row["keyword"], ";")
            literals == { Literal(Strip(pieces[i])) : i \in 1..Len(pieces) }
        IN  /\ literals \subseteq Objects(graph, m.uri, DCAT_keyword)
            /\ RecordsOf(m.uri) = 1 => Objects(graph, m.uri, DCAT_keyword) = literals

\* a three-piece field with an empty last piece, and a two-piece field of equal pieces
C8_Witness ==
    /\ \E m \in Entries :
        /\ RecordsOf(m.uri) = 1
        /\ ~Missing(m.row, "keyword")
        /\ Len(Split(m.row["keyword"], ";")) = 3
        /\ Objects(graph, m.uri, DCAT_keyword)
              = { Literal(<<"k">>), Literal(<<"m">>), Literal(<<>>) }
    /\ \E m \in Entries :
        /\ RecordsOf(m.uri) = 1
        /\ ~Missing(m.row, "keyword")
        /\ Len(Split(m.row["keyword"], ";")) = 2
        /\ Objects(graph, m.uri, DCAT_keyword) = { Literal(<<"k">>) }

(***************************************************************************)
(* C9: two records with present publishers whose names agree after         *)
(* replacing spaces by hyphens and lower-casing link to one publisher URI, *)
(* base + "organization/<slug>", which is typed Organization and carries   *)
(* the original publisher text of each record as a name.                   *)
(***************************************************************************)
SlugOf(name) == Lower(Replace(name, " ", "-"))

C9_PublishersCollapse ==
    \A m \in Entries : \A n \in Entries :
        (/\ ~Missing(m.row, "publisher")
         /\ ~Missing(n.row, "publisher")
         /\ SlugOf(m.row["publisher"]) = SlugOf(n.row["publisher"]))
        => LET org == URIRef(base_uri \o <<"organization/">> \o SlugOf(m.row["publisher"])) IN
           /\ <<m.uri, DCTERMS_publisher, org>> \in graph
           /\ <<n.uri, DCTERMS_publisher, org>> \in graph
           /\ <<org, RDF_type, FOAF_Organization>> \in graph
           /\ <<org, FOAF_name, Literal(m.row["publisher"])>> \in graph
           /\ <<org, FOAF_name, Literal(n.row["publisher"])>> \in graph

\* "H A" and "h-a" were both mapped, on different datasets
C9_Witness ==
    \E m \in Entries : \E n \in Entries :
        /\ ~Missing(m.row, "publisher")
        /\ ~Missing(n.row, "publisher")
        /\ m.row["publisher"] # n.row["publisher"]
        /\ m.uri # n.uri
        /\ SlugOf(m.row["publisher"]) = SlugOf(n.row["publisher"])
        /\ Cardinality(Objects(graph, publisher_uri(m.row["publisher"]), FOAF_name)) = 2

(***************************************************************************)
(* C10: a convert_csv call that fails (nonexistent path, unreadable        *)
(* source, missing required columns) leaves the store exactly as it was.   *)
(***************************************************************************)
C10_FailureLeavesStore ==
    (calls > 0 /\ Failed) => (graph = before /\ Latest = {})

\* a table with records but without its description column, on a populated store
C10_Witness ==
    /\ calls = 2
    /\ outcome.exc = "ValueError"
    /\ outcome.missing = {"description"}
    /\ src.lines # <<>>
    /\ before # {}
    /\ graph = before

(***************************************************************************)
(* C7 as claimed: _get_theme_uri(t) is the authority base followed by the  *)
(* table's code for uppercase(t), HEAL when uppercase(t) is no table key,  *)
(* so t and uppercase(t) are classified alike.                             *)
(***************************************************************************)
ThemeTable ==
    { <<<<"H","E","A","L","T","H">>, <<"H","E","A","L">>>>,
      <<<<"H","E","A","L">>, <<"H","E","A","L">>>>,
      <<<<"M","E","D","I","C","I","N","E">>, <<"H","E","A","L">>>>,
      <<<<"S","C","I","E","N","C","E">>, <<"S","C","I","E">>>>,
      <<<<"E","D","U","C","A","T","I","O","N">>, <<"E","D","U","C">>>>,
      <<<<"E","N","V","I","R","O","N","M","E","N","T">>, <<"E","N","V","I">>>>,
      <<<<"T","E","C","H","N","O","L","O","G","Y">>, <<"T","E","C","H">>>> }

CodeFor(t) ==
    IF \E e \in ThemeTable : e[1] = t
    THEN (CHOOSE e \in ThemeTable : e[1] = t)[2]
    ELSE <<"H","E","A","L">>

ThemeUri(code) ==
    URIRef(<<"http://publications.europa.eu/resource/authority/data-theme/">> \o code)

C7_ClassifierUppercases ==
    theme_out # NoTerm => theme_out = ThemeUri(CodeFor(Upper(theme_in)))

(***************************************************************************)
(* C7 as amended: _get_theme_uri(t) is the authority base followed by the  *)
(* table's code for t exactly as given, HEAL when t is no table key; the   *)
(* mapper upper-cases a theme cell first, so the theme it emits for a cell *)
(* t carries the code for uppercase(t).                                    *)
(***************************************************************************)
C7_ExactLookupUpperInMapper ==
    /\ theme_out # NoTerm => theme_out = ThemeUri(CodeFor(theme_in))
    /\ theme_row # NoTerm => theme_row = ThemeUri(CodeFor(Upper(theme_in)))

\* "science" in lower case: SCIE through the mapper, HEAL from _get_theme_uri itself
C7_Witness ==
    /\ theme_in = <<"s","c","i","e","n","c","e">>
    /\ theme_row = ThemeUri(<<"S","C","I","E">>)
    /\ theme_out = ThemeUri(<<"H","E","A","L">>)

====
